---- MODULE Spec2Model ----
(***************************************************************************)
(* A model of sftpsync (src/sftpsync/__init__.py): the one-way directory   *)
(* synchroniser Sftp.sync with its walkers, freshness check, store and     *)
(* deletion pass, run against two filesystems (local and remote).          *)
(*                                                                         *)
(* Strings are sequences of one-character strings, so that the path and    *)
(* pattern operations of the code (endswith, rstrip, basename, join,       *)
(* re.compile, search, sub) are computed and not assumed.                  *)
(* Times are counted in tenths of a second: the local filesystem keeps     *)
(* fractions of a second, the SFTP attributes carry whole seconds only.    *)
(***************************************************************************)
EXTENDS Integers, Sequences, FiniteSets, TLC

----------------------------------------------------------------------------
(* Bounds of the model *)

\* number of successive sync calls explored
MaxRuns == 2
\* the clock reading (tenths of a second) a freshly written file gets
Now == 200
\* how many of listing order, fault, source tree, fraction of a second and
\* skew depart from the plain call at once
MaxOff == 2

----------------------------------------------------------------------------
(* Strings *)

SLASH == "/"

Alphabet == <<"$", "+", ".", "/", "\\", "^", "a", "b", "c", "d", "l", "s", "t", "y", "z">>

Rank(c) == CHOOSE i \in 1..Len(Alphabet) : Alphabet[i] = c

\* the order of the names of a listing: by character code
RECURSIVE Less(_, _)
Less(p, q) ==
    IF q = <<>> THEN FALSE
    ELSE IF p = <<>> THEN TRUE
    ELSE IF Head(p) = Head(q) THEN Less(Tail(p), Tail(q))
    ELSE Rank(Head(p)) < Rank(Head(q))

\* str.endswith('/')
EndsWithSlash(p) == Len(p) > 0 /\ p[Len(p)] = SLASH

\* str.rstrip('/')
RECURSIVE RStrip(_)
RStrip(p) == IF EndsWithSlash(p) THEN RStrip(SubSeq(p, 1, Len(p) - 1)) ELSE p

\* index of the last '/' of p, 0 when there is none (str.rfind('/') + 1)
LastSlash(p) ==
    LET S == {i \in 1..Len(p) : p[i] = SLASH}
    IN  IF S = {} THEN 0 ELSE CHOOSE i \in S : \A j \in S : j <= i

\* os.path.basename
Basename(p) == SubSeq(p, LastSlash(p) + 1, Len(p))

\* os.path.dirname: the head up to the last '/', its trailing slashes
\* stripped unless it consists of slashes only
Dirname(p) ==
    LET head == SubSeq(p, 1, LastSlash(p))
    IN  IF head # <<>> /\ RStrip(head) # <<>> THEN RStrip(head) ELSE head

\* os.path.join(a, b)
Join(a, b) ==
    IF b # <<>> /\ Head(b) = SLASH THEN b
    ELSE IF a = <<>> \/ EndsWithSlash(a) THEN a \o b
    ELSE a \o <<SLASH>> \o b

IsPrefix(p, q) == Len(p) <= Len(q) /\ SubSeq(q, 1, Len(p)) = p

----------------------------------------------------------------------------
(* Regular expressions: the subset of Python's re made of literals, the    *)
(* escape \c, the wildcard '.', the anchors '^' and '$' and the postfix    *)
(* repetition '+'.                                                         *)

Atom(k, c) == [k |-> k, c |-> c, plus |-> FALSE]

\* sre_parse: "nothing to repeat", "multiple repeat", "bogus escape"
RECURSIVE Parse(_, _, _)
Parse(p, i, acc) ==
    IF i > Len(p) THEN [ok |-> TRUE, toks |-> acc]
    ELSE IF p[i] = "\\" THEN
        IF i = Len(p) THEN [ok |-> FALSE, toks |-> <<>>]
        ELSE Parse(p, i + 2, Append(acc, Atom("lit", p[i + 1])))
    ELSE IF p[i] = "+" THEN
        IF \/ acc = <<>>
           \/ acc[Len(acc)].k \in {"bol", "eol"}
           \/ acc[Len(acc)].plus
        THEN [ok |-> FALSE, toks |-> <<>>]
        ELSE Parse(p, i + 1, [acc EXCEPT ![Len(acc)].plus = TRUE])
    ELSE IF p[i] = "." THEN Parse(p, i + 1, Append(acc, Atom("any", ".")))
    ELSE IF p[i] = "^" THEN Parse(p, i + 1, Append(acc, Atom("bol", "^")))
    ELSE IF p[i] = "$" THEN Parse(p, i + 1, Append(acc, Atom("eol", "$")))
    ELSE Parse(p, i + 1, Append(acc, Atom("lit", p[i])))

\* re.compile(pattern)
Compile(p) == Parse(p, 1, <<>>)

AtomOk(tok, ch) == tok.k = "any" \/ (tok.k = "lit" /\ tok.c = ch)

\* length of the longest run of characters of s after pos that tok accepts
RECURSIVE Run(_, _, _)
Run(tok, s, pos) ==
    IF pos < Len(s) /\ AtomOk(tok, s[pos + 1]) THEN 1 + Run(tok, s, pos + 1) ELSE 0

\* where the match of toks[i..] that starts after pos characters of s ends,
\* -1 when there is none; '+' is greedy and backtracks
RECURSIVE MatchEnd(_, _, _, _)
MatchEnd(toks, i, s, pos) ==
    IF i > Len(toks) THEN pos
    ELSE LET tok == toks[i] IN
      IF tok.k = "bol" THEN
          IF pos = 0 THEN MatchEnd(toks, i + 1, s, pos) ELSE -1
      ELSE IF tok.k = "eol" THEN
          IF pos = Len(s) THEN MatchEnd(toks, i + 1, s, pos) ELSE -1
      ELSE IF tok.plus THEN
          LET ks == {k \in 1..Run(tok, s, pos) :
                        MatchEnd(toks, i + 1, s, pos + k) # -1}
          IN  IF ks = {} THEN -1
              ELSE MatchEnd(toks, i + 1, s,
                            pos + (CHOOSE k \in ks : \A j \in ks : j <= k))
      ELSE IF pos < Len(s) /\ AtomOk(tok, s[pos + 1])
          THEN MatchEnd(toks, i + 1, s, pos + 1)
          ELSE -1

\* regex.search(s) is not None
Search(toks, s) == \E start \in 0..Len(s) : MatchEnd(toks, 1, s, start) # -1

\* regex.sub('', s): every non-overlapping match, left to right, removed
RECURSIVE SubEmpty(_, _, _)
SubEmpty(toks, s, pos) ==
    IF pos > Len(s) THEN <<>>
    ELSE LET e == MatchEnd(toks, 1, s, pos) IN
      IF e > pos THEN SubEmpty(toks, s, e)
      ELSE IF pos < Len(s) THEN <<s[pos + 1]>> \o SubEmpty(toks, s, pos + 1)
      ELSE <<>>

----------------------------------------------------------------------------
(* Filesystems: a function from canonical absolute paths to entries.  The  *)
(* root "/" is always a directory of it.                                   *)

ROOT == <<SLASH>>

NoStat == [kind |-> "none", size |-> 0, mtime |-> 0, atime |-> 0]
DirStat == [kind |-> "dir", size |-> 0, mtime |-> 0, atime |-> 0]
FileStat(size, mtime, atime) == [kind |-> "file", size |-> size, mtime |-> mtime, atime |-> atime]

\* the path a filesystem resolves p to
Canon(p) == IF RStrip(p) = <<>> THEN ROOT ELSE RStrip(p)

IsDir(fs, p) == Canon(p) \in DOMAIN fs /\ fs[Canon(p)].kind = "dir"
IsFile(fs, p) == ~EndsWithSlash(p) /\ p \in DOMAIN fs /\ fs[p].kind = "file"
\* os.path.exists(p); sftp.lstat(p) does not raise
Exists(fs, p) == IsDir(fs, p) \/ IsFile(fs, p)

Children(fs, d) == {q \in DOMAIN fs : q # Canon(d) /\ Dirname(q) = Canon(d)}

\* the whole seconds of a time: what the SFTP attributes can carry
Whole(t) == (t \div 10) * 10

With(fs, p, e) == [q \in DOMAIN fs \cup {p} |-> IF q = p THEN e ELSE fs[q]]
Without(fs, p) == [q \in DOMAIN fs \ {p} |-> fs[q]]

\* os.mkdir(p), sftp.mkdir(p): one level; fails when p exists or its parent
\* is no directory
Mkdir(fs, p) ==
    IF Canon(p) \notin DOMAIN fs /\ IsDir(fs, Dirname(Canon(p)))
    THEN [ok |-> TRUE, fs |-> With(fs, Canon(p), DirStat)]
    ELSE [ok |-> FALSE, fs |-> fs]

\* os.makedirs(name): creates the missing ancestors, then name
RECURSIVE OsMakedirs(_, _)
OsMakedirs(fs, name) ==
    LET h0 == Dirname(name)
        t0 == Basename(name)
        head == IF t0 = <<>> THEN Dirname(h0) ELSE h0
        tail == IF t0 = <<>> THEN Basename(h0) ELSE t0
    IN  IF head # <<>> /\ tail # <<>> /\ ~Exists(fs, head)
        THEN LET r == OsMakedirs(fs, head)
             IN  IF r.ok THEN Mkdir(r.fs, name) ELSE r
        ELSE Mkdir(fs, name)

\* the file written by sftp.put (remote) or sftp.get (local): the size of
\* the source, the time of the write; fails when the parent directory is
\* missing or dst is a directory
Transfer(fs, dst, src_stat, now) ==
    IF ~EndsWithSlash(dst) /\ IsDir(fs, Dirname(dst)) /\ ~IsDir(fs, dst)
    THEN [ok |-> TRUE, fs |-> With(fs, dst, [kind |-> "file", size |-> src_stat.size,
                                             mtime |-> now, atime |-> now])]
    ELSE [ok |-> FALSE, fs |-> fs]

OsUtime_Untouched(fs, dst, atime, mtime) == fs

\* os.utime(dst, (atime, mtime))
OsUtime(fs, dst, atime, mtime) ==
    [fs EXCEPT ![dst].atime = atime, ![dst].mtime = mtime]

\* sftp.utime(dst, (atime, mtime)): the attributes are packed as integers,
\* any fractional seconds thrown away
SftpUtime(fs, dst, atime, mtime) ==
    [fs EXCEPT ![dst].atime = Whole(atime), ![dst].mtime = Whole(mtime)]

\* os.remove / sftp.remove
Remove(fs, p) ==
    IF IsFile(fs, p) THEN [ok |-> TRUE, fs |-> Without(fs, p)]
    ELSE [ok |-> FALSE, fs |-> fs]

\* os.rmdir / sftp.rmdir: an empty directory only
Rmdir(fs, p) ==
    IF IsDir(fs, p) /\ Canon(p) # ROOT /\ Children(fs, p) = {}
    THEN [ok |-> TRUE, fs |-> Without(fs, Canon(p))]
    ELSE [ok |-> FALSE, fs |-> fs]

\* a set of strings as the sequence a listing returns them in
RECURSIVE Sorted(_, _)
Sorted(S, rev) ==
    IF S = {} THEN <<>>
    ELSE LET m == CHOOSE x \in S : \A y \in S : x = y \/ (IF rev THEN Less(y, x) ELSE Less(x, y))
         IN  <<m>> \o Sorted(S \ {m}, rev)

\* os.listdir(path) / sftp.listdir(path) succeeds
CanList(fs, path, noList) == IsDir(fs, path) /\ Canon(path) \notin noList

\* the names of the entries of directory path, in the backend's order
ListNames(fs, path, rev) == Sorted({Basename(q) : q \in Children(fs, path)}, rev)

----------------------------------------------------------------------------
(* The walkers.  An entry is [type, file, stat]; an exception raised by    *)
(* the generator is the entry of type "raise", after which nothing comes.  *)

Entry(type, file, stat) == [type |-> type, file |-> file, stat |-> stat]

Raises(w) == w # <<>> /\ w[Len(w)].type = "raise"

\* what a generator yields: a, then b unless a raised
Then(a, b) == IF Raises(a) THEN a ELSE a \o b

\* Sftp._listdir: the joined paths of a listing
Listdir(fs, path, rev) ==
    LET names == ListNames(fs, path, rev)
    IN  [i \in 1..Len(names) |-> Join(path, names[i])]

\* Sftp._walk_remote: sftp.listdir raises for a directory it cannot list
RECURSIVE WalkRemote(_, _, _, _, _)
RECURSIVE WalkRemoteFiles(_, _, _, _, _)
WalkRemote(fs, path, topdown, rev, noList) ==
    IF ~CanList(fs, path, noList) THEN <<Entry("raise", path, NoStat)>>
    ELSE WalkRemoteFiles(fs, Listdir(fs, path, rev), topdown, rev, noList)

WalkRemoteFiles(fs, files, topdown, rev, noList) ==
    IF files = <<>> THEN <<>>
    ELSE LET file == Head(files)
             stat == fs[file]
             one == IF stat.kind # "dir" THEN <<Entry("file", file, stat)>>
                    ELSE IF topdown
                    THEN Then(<<Entry("dir", file, stat)>>,
                              WalkRemote(fs, file, topdown, rev, noList))
                    ELSE Then(WalkRemote(fs, file, topdown, rev, noList),
                              <<Entry("dir", file, NoStat)>>)
         IN  Then(one, WalkRemoteFiles(fs, Tail(files), topdown, rev, noList))

\* the entries of a listing that are (dirs = TRUE) or are not directories
RECURSIVE Only(_, _, _)
Only(fs, files, dirs) ==
    IF files = <<>> THEN <<>>
    ELSE IF (fs[Head(files)].kind = "dir") = dirs
         THEN <<Head(files)>> \o Only(fs, Tail(files), dirs)
         ELSE Only(fs, Tail(files), dirs)

\* Sftp._walk_local over os.walk: a directory that cannot be listed yields
\* nothing; of each directory the files come first, then the directories
RECURSIVE WalkLocal(_, _, _, _, _)
RECURSIVE WalkLocalDirs(_, _, _, _, _)
WalkLocal(fs, path, topdown, rev, noList) ==
    IF ~CanList(fs, path, noList) THEN <<>>
    ELSE LET all == Listdir(fs, path, rev)
             files == Only(fs, all, FALSE)
             dirs == Only(fs, all, TRUE)
             here == [i \in 1..Len(files) |-> Entry("file", files[i], fs[files[i]])]
                     \o [i \in 1..Len(dirs) |-> Entry("dir", dirs[i], fs[dirs[i]])]
             below == WalkLocalDirs(fs, dirs, topdown, rev, noList)
         IN  IF topdown THEN here \o below ELSE below \o here

WalkLocalDirs(fs, dirs, topdown, rev, noList) ==
    IF dirs = <<>> THEN <<>>
    ELSE WalkLocal(fs, Head(dirs), topdown, rev, noList)
         \o WalkLocalDirs(fs, Tail(dirs), topdown, rev, noList)

----------------------------------------------------------------------------
(* The pure parts of Sftp.sync *)

\* Sftp._makedirs: every ancestor of path from the top, created when
\* sftp.lstat fails; a failing sftp.mkdir raises
RECURSIVE Ancestors(_)
Ancestors(path) ==
    IF path \in {ROOT, <<>>} THEN <<>> ELSE Append(Ancestors(Dirname(path)), path)

RECURSIVE MakeAll(_, _)
MakeAll(fs, paths) ==
    IF paths = <<>> THEN [ok |-> TRUE, fs |-> fs]
    ELSE IF Exists(fs, Head(paths)) THEN MakeAll(fs, Tail(paths))
    ELSE LET r == Mkdir(fs, Head(paths))
         IN  IF r.ok THEN MakeAll(r.fs, Tail(paths)) ELSE r

SftpMakedirs(fs, path) == MakeAll(fs, Ancestors(path))

\* Sftp._get_filters: re.compile of every pattern; the first failure raises
GetFilters(filters) ==
    [ok |-> \A i \in 1..Len(filters) : Compile(filters[i]).ok,
     res |-> [i \in 1..Len(filters) |-> Compile(filters[i]).toks]]

\* Sftp._validate_filters
ValidateFilters(val, include, exclude) ==
    /\ \A i \in 1..Len(include) : Search(include[i], val)
    /\ \A i \in 1..Len(exclude) : ~Search(exclude[i], val)

DstRoot_Swapped(src, dst) ==
    IF EndsWithSlash(src) = EndsWithSlash(dst)
    THEN Join(dst, Basename(RStrip(src)))
    ELSE dst

\* sync, lines 175-176: the destination root
DstRoot(src, dst) ==
    IF EndsWithSlash(src) # EndsWithSlash(dst)
    THEN Join(dst, Basename(RStrip(src)))
    ELSE dst

\* sync, line 178: the pattern of re_base, built from src as it stands
BasePattern(src) == <<"^">> \o RStrip(src) \o <<SLASH>>

\* sync, lines 177-180: the source root walked
SrcRoot(src) == IF RStrip(src) = <<>> THEN ROOT ELSE RStrip(src)

\* sync, line 202: re_base.sub('', file)
RelPath(re_base, file) == SubEmpty(re_base, file, 0)

Validate_SizeOnly(fs, file, src_stat) ==
    /\ Exists(fs, file)
    /\ fs[Canon(file)].size = src_stat.size

\* Sftp._validate_remote / Sftp._validate_local: the same test on the two
\* backends, the mtimes compared for equality
Validate(fs, file, src_stat) ==
    /\ Exists(fs, file)
    /\ fs[Canon(file)].mtime = src_stat.mtime
    /\ fs[Canon(file)].size = src_stat.size

ValidateRemote(fs, file, src_stat) == Validate(fs, file, src_stat)
ValidateLocal(fs, file, src_stat) == Validate(fs, file, src_stat)

Extraneous_Inverted(item, files) ==
    \E i \in 1..Len(files[item.type]) : files[item.type][i] = item.file

\* _delete_*: line 113 / 127, file not in files[type]
Extraneous(item, files) ==
    \A i \in 1..Len(files[item.type]) : files[item.type][i] # item.file

----------------------------------------------------------------------------
(* State *)

VARIABLES
    loc,         \* the local filesystem
    rem,         \* the remote filesystem
    args,        \* the arguments of sync: src, dst, download, include, exclude, delete, dry
    env,         \* the environment: listing order, and the paths whose store, removal or listing fails
    frame,       \* the locals of sync set before the walk: src, dst, re_base, include, exclude
    pc,          \* where sync stands: idle, walk, utime, delete, done (returned), raised
    error,       \* what raised, when pc = "raised"
    todo,        \* what the generator of the running for loop has yet to yield
    dst_list,    \* the manifest
    total_size,
    run,         \* the number of the sync call
    ops,         \* the mutating calls this run has made, in order: [op, path, ok]
    loc0, rem0,  \* the filesystems when this run was called
    verdicts,    \* the freshness decisions of this run
    dwalk,       \* the post-order walk the deletion pass of this run iterates
    swalk,       \* the pre-order walk of the source this run iterates
    client,      \* the Sftp object: its session, its flag, its constructor's position
    log          \* the outcome of the earlier runs

vars == <<loc, rem, args, env, frame, pc, error, todo, dst_list, total_size,
          run, ops, loc0, rem0, verdicts, dwalk, swalk, client, log>>

Op(op, path, ok) == [op |-> op, path |-> path, ok |-> ok]

\* max_attempts=3 of the signature of Sftp.__init__
DefaultMaxAttempts == 3

\* an Sftp object whose constructor has returned with a session, opened at
\* the first attempt
Connected ==
    [pc |-> "returned", i |-> 0, max_attempts |-> DefaultMaxAttempts, log_errors |-> TRUE,
     sftp |-> "session", logged |-> TRUE,
     calls |-> <<[op |-> "connect", i |-> 0], [op |-> "open_sftp", i |-> 0]>>,
     errors |-> <<>>]

NoFrame == [src |-> <<>>, dst |-> <<>>, re_base |-> <<>>, include |-> <<>>, exclude |-> <<>>]
NoList == [file |-> <<>>, dir |-> <<>>]

\* the filesystem sync writes to, and the one it reads from
Dest == IF args.download THEN loc ELSE rem
Source == IF args.download THEN rem ELSE loc

----------------------------------------------------------------------------
(* sync, lines 166-199: filters, roots, the destination root *)

\* lines 182-195: os.makedirs(dst) unless it exists, or self._makedirs(dst);
\* neither in a dry run
CreateRoot(a, dst, l, r) ==
    IF a.dry THEN [ok |-> TRUE, loc |-> l, rem |-> r, ops |-> <<>>]
    ELSE IF a.download THEN
        IF Exists(l, dst) THEN [ok |-> TRUE, loc |-> l, rem |-> r, ops |-> <<>>]
        ELSE LET m == OsMakedirs(l, dst)
             IN  [ok |-> m.ok, loc |-> m.fs, rem |-> r,
                  ops |-> <<Op("makedirs", dst, m.ok)>>]
    ELSE LET m == SftpMakedirs(r, dst)
         IN  [ok |-> m.ok, loc |-> l, rem |-> m.fs,
              ops |-> IF m.fs = r /\ m.ok THEN <<>> ELSE <<Op("makedirs", dst, m.ok)>>]

\* the destination root made before the patterns are compiled
Prologue_RootFirst(a, l, r) ==
    LET ex == GetFilters(a.exclude)
        inc == GetFilters(a.include)
        base == Compile(BasePattern(a.src))
        dst == DstRoot(a.src, a.dst)
        fr == [src |-> SrcRoot(a.src), dst |-> dst, re_base |-> base.toks,
               include |-> inc.res, exclude |-> ex.res]
        root == CreateRoot(a, dst, l, r)
    IN  IF ~root.ok
        THEN [error |-> "root", loc |-> root.loc, rem |-> root.rem, ops |-> root.ops,
              frame |-> NoFrame]
        ELSE [error |-> IF ~ex.ok \/ ~inc.ok THEN "filters"
                        ELSE IF ~base.ok THEN "re_base" ELSE "",
              loc |-> root.loc, rem |-> root.rem, ops |-> root.ops, frame |-> fr]

\* lines 166-195: the patterns compiled (a failure raises), the roots
\* computed, the destination root made
Prologue(a, l, r) ==
    LET ex == GetFilters(a.exclude)
        inc == GetFilters(a.include)
        base == Compile(BasePattern(a.src))
        dst == DstRoot(a.src, a.dst)
        fr == [src |-> SrcRoot(a.src), dst |-> dst, re_base |-> base.toks,
               include |-> inc.res, exclude |-> ex.res]
        root == CreateRoot(a, dst, l, r)
    IN  IF ~ex.ok \/ ~inc.ok
        THEN [error |-> "filters", loc |-> l, rem |-> r, ops |-> <<>>, frame |-> NoFrame]
        ELSE IF ~base.ok
        THEN [error |-> "re_base", loc |-> l, rem |-> r, ops |-> <<>>, frame |-> NoFrame]
        ELSE [error |-> IF root.ok THEN "" ELSE "root",
              loc |-> root.loc, rem |-> root.rem, ops |-> root.ops, frame |-> fr]

\* callable_walk(src), line 201
SourceWalk(a, fr, l, r, e) ==
    IF a.download THEN WalkRemote(r, fr.src, TRUE, e.rev, e.noList)
    ELSE WalkLocal(l, fr.src, TRUE, e.rev, e.noList)

\* the walk of callable_delete, line 112 / 126
DestWalk(a, fr, l, r, e) ==
    IF a.download THEN WalkLocal(l, fr.dst, FALSE, e.rev, e.noList)
    ELSE WalkRemote(r, fr.dst, FALSE, e.rev, e.noList)

Sync_Call ==
    /\ pc = "idle"
    /\ LET p == Prologue(args, loc, rem)
       IN  /\ loc' = p.loc
           /\ rem' = p.rem
           /\ ops' = p.ops
           /\ frame' = p.frame
           /\ error' = p.error
           /\ pc' = IF p.error = "" THEN "walk" ELSE "raised"
           /\ todo' = IF p.error = "" THEN SourceWalk(args, p.frame, p.loc, p.rem, env)
                      ELSE <<>>
    /\ dst_list' = NoList
    /\ total_size' = 0
    /\ swalk' = todo'
    /\ UNCHANGED <<args, env, run, loc0, rem0, verdicts, dwalk, client, log>>

----------------------------------------------------------------------------
(* sync, lines 201-227: one entry of the source walk *)

\* lines 210-220: the destination directory of an admitted directory
\* entry, made when it is missing
EnsureDir(a, fs, dst_file) ==
    IF Exists(fs, dst_file) THEN [ok |-> TRUE, fs |-> fs, ops |-> <<>>]
    ELSE LET m == IF a.download THEN OsMakedirs(fs, dst_file) ELSE Mkdir(fs, dst_file)
         IN  [ok |-> m.ok, fs |-> m.fs,
              ops |-> <<Op(IF a.download THEN "makedirs" ELSE "mkdir", dst_file, m.ok)>>]

\* callable_validate, line 223
IsFresh(a, fs, dst_file, stat) ==
    IF a.download THEN ValidateLocal(fs, dst_file, stat)
    ELSE ValidateRemote(fs, dst_file, stat)

\* sftp.get / sftp.put of _store_local / _store_remote: the transfer; the
\* remote server stamps the file with its own whole-second clock
Store(a, e, fs, file, dst_file, stat) ==
    IF file \in e.noStore THEN [ok |-> FALSE, fs |-> fs]
    ELSE Transfer(fs, dst_file, stat, IF a.download THEN Now ELSE Whole(Now))

StoreOutcome_Swallowed(ok) == IF ok THEN "utime" ELSE "walk"

\* no handler surrounds callable_store (line 225): a failure leaves sync
StoreOutcome(ok) == IF ok THEN "utime" ELSE "raised"

Admitted(fr, file) ==
    ValidateFilters(RelPath(fr.re_base, file), fr.include, fr.exclude)

DstFile(fr, file) == Join(fr.dst, RelPath(fr.re_base, file))

SetDest(fs) ==
    /\ loc' = IF args.download THEN fs ELSE loc
    /\ rem' = IF args.download THEN rem ELSE fs

Sync_Raise ==
    /\ pc \in {"walk", "delete"}
    /\ todo # <<>>
    /\ Head(todo).type = "raise"
    /\ pc' = "raised"
    /\ error' = IF pc = "walk" THEN "walk" ELSE "delete_walk"
    /\ UNCHANGED <<loc, rem, args, env, frame, todo, dst_list, total_size, run, ops,
                   loc0, rem0, verdicts, dwalk, swalk, client, log>>

Sync_Filtered ==
    /\ pc = "walk"
    /\ todo # <<>>
    /\ Head(todo).type # "raise"
    /\ ~Admitted(frame, Head(todo).file)
    /\ todo' = Tail(todo)
    /\ UNCHANGED <<loc, rem, args, env, frame, pc, error, dst_list, total_size, run, ops,
                   loc0, rem0, verdicts, dwalk, swalk, client, log>>

Sync_Dir ==
    /\ pc = "walk"
    /\ todo # <<>>
    /\ Head(todo).type = "dir"
    /\ Admitted(frame, Head(todo).file)
    /\ LET dst_file == DstFile(frame, Head(todo).file)
           m == EnsureDir(args, Dest, dst_file)
       IN  /\ dst_list' = [dst_list EXCEPT !.dir = Append(@, dst_file)]
           /\ SetDest(m.fs)
           /\ ops' = ops \o m.ops
           /\ pc' = IF m.ok THEN "walk" ELSE "raised"
           /\ error' = IF m.ok THEN error ELSE "mkdir"
           /\ todo' = IF m.ok THEN Tail(todo) ELSE todo
    /\ UNCHANGED <<args, env, frame, total_size, run, loc0, rem0, verdicts, dwalk, swalk,
                   client, log>>

Sync_File ==
    /\ pc = "walk"
    /\ todo # <<>>
    /\ Head(todo).type = "file"
    /\ Admitted(frame, Head(todo).file)
    /\ LET item == Head(todo)
           dst_file == DstFile(frame, item.file)
           fresh == IsFresh(args, Dest, dst_file, item.stat)
           st == Store(args, env, Dest, item.file, dst_file, item.stat)
           dstat == IF Exists(Dest, dst_file) THEN Dest[Canon(dst_file)] ELSE NoStat
       IN  /\ dst_list' = [dst_list EXCEPT !.file = Append(@, dst_file)]
           /\ verdicts' = Append(verdicts, [file |-> item.file, dst_file |-> dst_file,
                                            src_stat |-> item.stat, dst_stat |-> dstat,
                                            fresh |-> fresh])
           /\ IF fresh THEN
                  /\ todo' = Tail(todo)
                  /\ UNCHANGED <<loc, rem, pc, error, total_size, ops>>
              ELSE IF args.dry THEN
                  /\ total_size' = total_size + item.stat.size
                  /\ todo' = Tail(todo)
                  /\ UNCHANGED <<loc, rem, pc, error, ops>>
              ELSE
                  /\ SetDest(st.fs)
                  /\ ops' = Append(ops, Op(IF args.download THEN "get" ELSE "put",
                                           dst_file, st.ok))
                  /\ pc' = StoreOutcome(st.ok)
                  /\ error' = IF st.ok THEN error ELSE "store"
                  /\ UNCHANGED <<todo, total_size>>
    /\ UNCHANGED <<args, env, frame, run, loc0, rem0, dwalk, swalk, client, log>>

\* _store_local / _store_remote, second statement: the timestamps of the
\* source set on the destination; then line 226
Sync_Utime ==
    /\ pc = "utime"
    /\ LET item == Head(todo)
           dst_file == DstFile(frame, item.file)
       IN  /\ SetDest(IF args.download
                      THEN OsUtime(Dest, dst_file, item.stat.atime, item.stat.mtime)
                      ELSE SftpUtime(Dest, dst_file, item.stat.atime, item.stat.mtime))
           /\ ops' = Append(ops, Op("utime", dst_file, TRUE))
           /\ total_size' = total_size + item.stat.size
    /\ todo' = Tail(todo)
    /\ pc' = "walk"
    /\ UNCHANGED <<args, env, frame, error, dst_list, run, loc0, rem0, verdicts, dwalk, swalk,
                   client, log>>

----------------------------------------------------------------------------
(* sync, lines 229-232, and _delete_remote / _delete_local *)

Sync_EndWalk ==
    /\ pc = "walk"
    /\ todo = <<>>
    /\ IF args.delete
       THEN /\ pc' = "delete"
            /\ todo' = DestWalk(args, frame, loc, rem, env)
            /\ dwalk' = DestWalk(args, frame, loc, rem, env)
       ELSE /\ pc' = "done"
            /\ UNCHANGED <<todo, dwalk>>
    /\ UNCHANGED <<loc, rem, args, env, frame, error, dst_list, total_size, run, ops,
                   loc0, rem0, verdicts, swalk, client, log>>

\* os.remove / os.rmdir, sftp.remove / sftp.rmdir of an entry
Delete(e, fs, item) ==
    IF item.file \in e.noRemove THEN [ok |-> FALSE, fs |-> fs]
    ELSE IF item.type = "file" THEN Remove(fs, item.file)
    ELSE Rmdir(fs, item.file)

DeleteOutcome_Uncaught(ok) == IF ok THEN "delete" ELSE "raised"

\* lines 114-123 / 128-137: the removal is inside try/except Exception,
\* which logs and goes on with the loop
DeleteOutcome(ok) == "delete"

Sync_Delete ==
    /\ pc = "delete"
    /\ todo # <<>>
    /\ Head(todo).type # "raise"
    /\ LET item == Head(todo)
           d == Delete(env, Dest, item)
       IN  IF Extraneous(item, dst_list) /\ ~args.dry
           THEN /\ SetDest(d.fs)
                /\ ops' = Append(ops, Op(IF item.type = "file" THEN "remove" ELSE "rmdir",
                                         item.file, d.ok))
                /\ pc' = DeleteOutcome(d.ok)
                /\ error' = IF DeleteOutcome(d.ok) = "raised" THEN "delete" ELSE error
           ELSE UNCHANGED <<loc, rem, ops, pc, error>>
    /\ todo' = Tail(todo)
    /\ UNCHANGED <<args, env, frame, dst_list, total_size, run, loc0, rem0, verdicts,
                   dwalk, swalk, client, log>>

Sync_Return ==
    /\ pc = "delete"
    /\ todo = <<>>
    /\ pc' = "done"
    /\ UNCHANGED <<loc, rem, args, env, frame, error, todo, dst_list, total_size, run, ops,
                   loc0, rem0, verdicts, dwalk, swalk, client, log>>

\* what a call of sync has come to, as the caller's record of it
Outcome ==
    [pc |-> pc, error |-> error, ops |-> ops, total_size |-> total_size, todo |-> todo,
     args |-> args, loc0 |-> loc0, rem0 |-> rem0, loc |-> loc, rem |-> rem]

\* the caller calls sync again with the same arguments
Again ==
    /\ pc \in {"done", "raised"}
    /\ run < MaxRuns
    /\ run' = run + 1
    /\ log' = Append(log, Outcome)
    /\ pc' = "idle"
    /\ error' = ""
    /\ todo' = <<>>
    /\ dst_list' = NoList
    /\ total_size' = 0
    /\ ops' = <<>>
    /\ verdicts' = <<>>
    /\ dwalk' = <<>>
    /\ swalk' = <<>>
    /\ frame' = NoFrame
    /\ loc0' = loc
    /\ rem0' = rem
    /\ UNCHANGED <<loc, rem, args, env, client>>

----------------------------------------------------------------------------
(* The calls explored: paths, patterns, trees, environments *)

Str_s == <<"/", "s">>
Str_d == <<"/", "d">>
Str_ds == <<"/", "d", "/", "s">>
Str_a == <<"a">>
Str_bt == <<"b", ".", "t">>
Str_bl == <<"b", ".", "l">>
Str_ct == <<"c", ".", "t">>
Str_y == <<"y">>
Str_z == <<"z">>

\* \.t$   ^a   + (nothing to repeat)
Pat_t == <<"\\", ".", "t", "$">>
Pat_a == <<"^", "a">>
Pat_bad == <<"+">>

Srcs == {Str_s, Str_s \o <<SLASH>>}
Dsts == {Str_d, Str_d \o <<SLASH>>}
Includes == {<<>>, <<Pat_t>>, <<Pat_bad>>}
Excludes == {<<>>, <<Pat_a>>}

File(path, size, mtime) == path :> FileStat(size, mtime, mtime + 10)
Dir(path) == path :> DirStat

EmptyTree == Dir(ROOT)

\* the source: s/a/b.t, s/a/b.l, s/c.t; frac is the fraction of a second
\* of the timestamps (0 on the remote side)
SrcTree(frac) ==
    Dir(ROOT) @@ Dir(Str_s) @@ Dir(Join(Str_s, Str_a))
    @@ File(Join(Join(Str_s, Str_a), Str_bt), 1, 100 + frac)
    @@ File(Join(Join(Str_s, Str_a), Str_bl), 2, 100 + frac)
    @@ File(Join(Str_s, Str_ct), 2, 120 + frac)

\* a destination under base: a/b.t of the size of the source and skew
\* later, and three entries the source does not have, the file y and the
\* directory z with its file z/y
DstTree(base, skew) ==
    Dir(ROOT) @@ Dir(Str_d) @@ Dir(base) @@ Dir(Join(base, Str_a))
    @@ File(Join(Join(base, Str_a), Str_bt), 1, 100 + skew)
    @@ File(Join(base, Str_y), 1, 50)
    @@ Dir(Join(base, Str_z))
    @@ File(Join(Join(base, Str_z), Str_y), 1, 50)

NoFault == [noStore |-> {}, noRemove |-> {}, noList |-> {}]
Faults ==
    {NoFault,
     [NoFault EXCEPT !.noStore = {Join(Str_s, Str_ct)}],
     [NoFault EXCEPT !.noRemove = {Join(Str_d, Str_y)}],
     [NoFault EXCEPT !.noList = {Join(Str_s, Str_a)}],
     [NoFault EXCEPT !.noList = {Join(Str_d, Str_z)}]}

\* the variations of a call: listing order, fault, source tree and its
\* fraction of a second, destination tree and its skew
Variations ==
    [rev : BOOLEAN, fault : Faults, src : {"tree", "none"}, frac : {0, 5},
     dst : {"none", "d", "ds"}, skew : {0, 30, 40}]

Plain == [rev |-> FALSE, fault |-> NoFault, src |-> "tree", frac |-> 0,
          dst |-> "none", skew |-> 0]

\* at most MaxOff things besides the destination tree depart from the plain
\* call; only the tree under /d is skewed
OneOff(v) ==
    /\ Cardinality({f \in {"rev", "fault", "src", "frac", "skew"} : v[f] # Plain[f]}) <= MaxOff
    /\ v.skew # 0 => v.dst = "d"

SrcFs(v) == IF v.src = "tree" THEN SrcTree(v.frac) ELSE EmptyTree
DstFs(v) ==
    IF v.dst = "none" THEN EmptyTree
    ELSE DstTree(IF v.dst = "d" THEN Str_d ELSE Str_ds, v.skew)

Init ==
    /\ args \in [src : Srcs, dst : Dsts, download : BOOLEAN, include : Includes,
                 exclude : Excludes, delete : BOOLEAN, dry : BOOLEAN]
    /\ \E v \in {w \in Variations : OneOff(w)} :
          \* the remote side reports whole seconds only
          /\ args.download => v.frac = 0
          /\ env = [rev |-> v.rev, noStore |-> v.fault.noStore,
                    noRemove |-> v.fault.noRemove, noList |-> v.fault.noList]
          /\ loc = IF args.download THEN DstFs(v) ELSE SrcFs(v)
          /\ rem = IF args.download THEN SrcFs(v) ELSE DstFs(v)
    /\ frame = NoFrame
    /\ pc = "idle"
    /\ error = ""
    /\ todo = <<>>
    /\ dst_list = NoList
    /\ total_size = 0
    /\ run = 1
    /\ ops = <<>>
    /\ loc0 = loc
    /\ rem0 = rem
    /\ verdicts = <<>>
    /\ dwalk = <<>>
    /\ swalk = <<>>
    /\ client = Connected
    /\ log = <<>>

Next ==
    \/ Sync_Call
    \/ Sync_Raise
    \/ Sync_Filtered
    \/ Sync_Dir
    \/ Sync_File
    \/ Sync_Utime
    \/ Sync_EndWalk
    \/ Sync_Delete
    \/ Sync_Return
    \/ Again

Spec == Init /\ [][Next]_vars

----------------------------------------------------------------------------
(* What the claims speak of *)

Ended == pc \in {"done", "raised"}

NoFaults == env.noStore = {} /\ env.noRemove = {} /\ env.noList = {}

OpsOf(kinds) == {i \in 1..Len(ops) : ops[i].op \in kinds}

\* the files of the source under /s, and their paths relative to it
SourceFiles == {f \in DOMAIN Source : Source[f].kind = "file" /\ IsPrefix(Str_s \o <<SLASH>>, f)}
Rel(f) == SubSeq(f, Len(Str_s) + 2, Len(f))

\* a relative path matches every include pattern and no exclude pattern
Matches(pats, val) == {i \in 1..Len(pats) : Search(Compile(pats[i]).toks, val)}
AdmittedRel(val) ==
    /\ Matches(args.include, val) = 1..Len(args.include)
    /\ Matches(args.exclude, val) = {}

\* q is a file of fs
FileAt(fs, q) == q \in DOMAIN fs /\ fs[q].kind = "file"

Abs(a, b) == IF a < b THEN b - a ELSE a - b

----------------------------------------------------------------------------
\* C1: a dry run leaves both filesystems as they were when sync was called:
\* no mkdir, no file written, nothing removed.
C1_DryRunMutatesNothing ==
    args.dry => (loc = loc0 /\ rem = rem0)

\* C2: when a non-dry sync into an empty destination has ended, a source
\* file is at its destination, <destination root>/<relative path>, iff its
\* relative path matches every include pattern and no exclude pattern.
C2_FilterCorrectness ==
    (/\ Ended
     /\ run = 1
     /\ ~args.dry
     /\ NoFaults
     /\ DOMAIN (IF args.download THEN loc0 ELSE rem0) = {ROOT}
     /\ \A i \in 1..Len(args.include) : Compile(args.include[i]).ok)
    => \A f \in SourceFiles :
          (\E root \in {Str_d, Str_ds} :
                FileAt(Dest, Join(root, Rel(f))))
          <=> AdmittedRel(Rel(f))

\* C3, as claimed: sync("/s", "/d") writes under /d/s, and sync("/s/", "/d")
\* writes the contents under /d with no s segment.
C3_TrailingSlashAsClaimed ==
    \A i \in {j \in OpsOf({"get", "put"}) : ops[j].ok} :
        /\ (args.src = Str_s /\ args.dst = Str_d)
              => IsPrefix(Str_ds \o <<SLASH>>, ops[i].path)
        /\ (args.src = Str_s \o <<SLASH>> /\ args.dst = Str_d)
              => ~IsPrefix(Str_ds \o <<SLASH>>, ops[i].path)

\* C3, amended: sync("/s", "/d") creates and writes under /d only, never
\* under /d/s, and a completed run has every source file /s/rel that the
\* walk yielded and the filters admitted at /d/rel; sync("/s/", "/d")
\* creates and writes under /d/s only, and a completed run has every such
\* file at /d/s/rel.
C3_TrailingSlash ==
    LET made == OpsOf({"get", "put", "utime", "mkdir"})
        RootedAt(root) ==
            \A i \in 1..Len(verdicts) :
                /\ verdicts[i].dst_file = root \o <<SLASH>> \o Rel(verdicts[i].file)
                /\ (pc = "done" /\ ~args.dry) => FileAt(Dest, verdicts[i].dst_file)
    IN  /\ (args.src = Str_s /\ args.dst = Str_d) =>
              /\ \A i \in made : /\ IsPrefix(Str_d \o <<SLASH>>, ops[i].path)
                                 /\ ~IsPrefix(Str_ds \o <<SLASH>>, ops[i].path)
              /\ RootedAt(Str_d)
        /\ (args.src = Str_s \o <<SLASH>> /\ args.dst = Str_d) =>
              /\ \A i \in made : IsPrefix(Str_ds \o <<SLASH>>, ops[i].path)
              /\ RootedAt(Str_ds)

\* C3, witness: sync("/s/", "/d") has returned with c.t copied to /d/s/c.t
C3_Witness ==
    /\ pc = "done"
    /\ args.src = Str_s \o <<SLASH>>
    /\ args.dst = Str_d
    /\ OpsOf({"get", "put"}) # {}
    /\ FileAt(Dest, Join(Str_ds, Str_ct))

\* C4: the freshness check finds the destination file fresh iff it exists,
\* has the size of the source and an mtime within 3 time units (30 tenths)
\* of the source's.
C4_FreshnessTolerance ==
    \A i \in 1..Len(verdicts) :
        verdicts[i].fresh <=>
            /\ verdicts[i].dst_stat.kind # "none"
            /\ Abs(verdicts[i].dst_stat.mtime, verdicts[i].src_stat.mtime) <= 30
            /\ verdicts[i].dst_stat.size = verdicts[i].src_stat.size

\* the files of the destination below the destination root of this run
Below(fs) == {q \in DOMAIN fs : fs[q].kind = "file"
                                /\ IsPrefix(Canon(frame.dst) \o <<SLASH>>, q)}

\* the destinations of the source files that the walk of this run yielded
\* and the filters admit
Walked == {verdicts[i].file : i \in 1..Len(verdicts)}
Kept == {Canon(frame.dst) \o <<SLASH>> \o Rel(f) : f \in {g \in Walked : AdmittedRel(Rel(g))}}

Dest0 == IF args.download THEN loc0 ELSE rem0

\* the files whose removal the filesystem refuses, or whose directory it
\* does not list
Refused == {q \in DOMAIN Dest : q \in env.noRemove \/ Dirname(q) \in env.noList}

\* C5: after a completed non-dry sync with delete=true, no file is left
\* below the destination root that is not the destination of an admitted
\* source file of this run (the filesystem refusing the removal apart), and
\* every file that is one and was there is still there; with delete=false
\* every entry the destination had is still there.
C5_DeletionScope ==
    (pc = "done" /\ ~args.dry) =>
        /\ args.delete => /\ Below(Dest) \subseteq Kept \cup Refused
                          /\ Below(Dest0) \cap Kept \subseteq Below(Dest)
        /\ ~args.delete => DOMAIN Dest0 \subseteq DOMAIN Dest

\* C5, witness: a completed deletion pass that removed the extraneous y
\* and the counterpart a/b.t of a source file the filters reject
C5_Witness ==
    /\ pc = "done"
    /\ ~args.dry
    /\ args.delete
    /\ args.exclude = <<Pat_a>>
    /\ Join(Join(Str_d, Str_a), Str_bt) \in Below(Dest0) \ Below(Dest)
    /\ Join(Str_d, Str_y) \in Below(Dest0) \ Below(Dest)
    /\ Join(Str_d, Str_ct) \in Below(Dest)

\* C5, witness of the other half: a completed run without delete that left
\* the extraneous y in place
C5_WitnessKeep ==
    /\ pc = "done"
    /\ ~args.dry
    /\ ~args.delete
    /\ OpsOf({"get", "put"}) # {}
    /\ Join(Str_d, Str_y) \in Below(Dest0) \cap Below(Dest)

\* C6: the second of two successive runs with the same arguments and
\* delete=true copies no file and deletes nothing.
C6_Idempotence ==
    (run = 2 /\ args.delete /\ ~args.dry /\ log[1].pc = "done") =>
        \A i \in OpsOf({"get", "put", "remove", "rmdir"}) : ~ops[i].ok

\* the calls of the given kinds that failed
Failed(kinds) == {i \in OpsOf(kinds) : ~ops[i].ok}

\* C7: a store that fails ends sync with that failure: it is the last call
\* the run makes, the entries after it are left unprocessed and the
\* deletion pass is not started.
C7_StoreFailurePropagates ==
    \A i \in Failed({"get", "put"}) :
        /\ pc = "raised"
        /\ error = "store"
        /\ i = Len(ops)
        /\ todo # <<>>
        /\ dwalk = <<>>

\* C7, witness: a failed store with source entries left and delete=true
C7_Witness ==
    /\ Failed({"get", "put"}) # {}
    /\ Len(todo) > 1
    /\ args.delete

\* C8: a directory that cannot be listed never ends the run: sync does not
\* raise out of the source walk nor out of the walk of the deletion pass.
C8_ListingFailureSwallowed ==
    error \notin {"walk", "delete_walk"}

\* C9: when a pattern does not compile, sync raises with nothing done: no
\* call that mutates a filesystem was made and both are as they were.
C9_BadPatternBeforeMutation ==
    error = "filters" =>
        /\ pc = "raised"
        /\ ops = <<>>
        /\ loc = loc0
        /\ rem = rem0

\* C9, witness: a non-dry sync with a malformed pattern into a destination
\* whose root is missing has raised
C9_Witness ==
    /\ error = "filters"
    /\ ~args.dry
    /\ ~Exists(Dest, args.dst)

\* the entries of the deletion walk that are not in the manifest
Candidates == {i \in 1..Len(dwalk) : dwalk[i].type # "raise" /\ Extraneous(dwalk[i], dst_list)}

Attempted(i) == \E j \in OpsOf({"remove", "rmdir"}) : ops[j].path = dwalk[i].file

\* C10: a remove or rmdir that fails does not end the deletion pass: sync
\* never raises out of a removal, every candidate that comes after the
\* failure in the post-order walk is attempted, and the pass ends only with
\* the walk.
C10_DeletionFailureRecovered ==
    /\ error # "delete"
    /\ (~args.dry /\ Ended /\ dwalk # <<>>) =>
          /\ \A i \in Candidates : Attempted(i)
          /\ pc = "raised" => Raises(dwalk)

\* C10, witness: sync has returned after a removal failed and a later
\* candidate was removed
C10_Witness ==
    /\ pc = "done"
    /\ \E i \in Failed({"remove", "rmdir"}) :
          \E j \in OpsOf({"remove", "rmdir"}) : j > i /\ ops[j].ok

----------------------------------------------------------------------------
\* the sizes of a set of files of fs, added up
RECURSIVE SumSizes(_, _)
SumSizes(fs, S) ==
    IF S = {} THEN 0
    ELSE LET f == CHOOSE x \in S : TRUE
         IN  fs[f].size + SumSizes(fs, S \ {f})

\* the source files the filters admit that were not fresh (same size, same
\* mtime) at their destination when sync was called
Stale0 ==
    {f \in SourceFiles :
        /\ AdmittedRel(Rel(f))
        /\ LET q == Canon(frame.dst) \o <<SLASH>> \o Rel(f)
           IN  ~(FileAt(Dest0, q) /\ Dest0[q].size = Source[f].size
                                  /\ Dest0[q].mtime = Source[f].mtime)}

\* C11: whatever dry is, the total a call of sync has accumulated when it
\* ends is the sum of the sizes of the admitted source files that were not
\* fresh at the destination, so that the dry run and the real run of the
\* same call on the same trees report the same number.
C11_DryRunByteCount ==
    (/\ Ended
     /\ NoFaults
     /\ error # "filters")
    => total_size = SumSizes(Source, Stale0)

\* C16: the post-order walk of the deletion pass yields every entry below a
\* directory before the directory, and the entry of the directory carries
\* no stat.
C16_PostOrder ==
    \A i \in 1..Len(dwalk) :
        dwalk[i].type = "dir" =>
            /\ dwalk[i].stat = NoStat
            /\ \A j \in 1..Len(dwalk) :
                  IsPrefix(dwalk[i].file \o <<SLASH>>, dwalk[j].file) => j < i

\* C17: when a non-dry sync has returned, every file it copied has at the
\* destination the size, the mtime and the atime of its source, and every
\* admitted source file the walk yielded is fresh at its destination.
C17_TimestampPropagation ==
    (pc = "done" /\ ~args.dry) =>
        \A i \in 1..Len(verdicts) :
            LET v == verdicts[i]
            IN  /\ ~v.fresh =>
                      /\ FileAt(Dest, v.dst_file)
                      /\ Dest[v.dst_file].size = v.src_stat.size
                      /\ Dest[v.dst_file].mtime = v.src_stat.mtime
                      /\ Dest[v.dst_file].atime = v.src_stat.atime
                /\ IsFresh(args, Dest, v.dst_file, v.src_stat)

\* C19: whenever a non-dry sync is about to copy a file (the next entry of
\* the walk is an admitted file that is not fresh), the parent directory of
\* its destination exists on the destination side.
C19_MkdirPrecedesCopy ==
    (/\ pc = "walk"
     /\ ~args.dry
     /\ todo # <<>>
     /\ Head(todo).type = "file"
     /\ Admitted(frame, Head(todo).file)
     /\ ~IsFresh(args, Dest, DstFile(frame, Head(todo).file), Head(todo).stat))
    => IsDir(Dest, Dirname(DstFile(frame, Head(todo).file)))

----------------------------------------------------------------------------
(* The walkers on their own: _walk_remote or _walk_local called on a        *)
(* directory, pre-order as sync calls it and post-order as the deletion    *)
(* pass does.                                                              *)

WalkTrees == {EmptyTree, SrcTree(0), DstTree(Str_d, 0), DstTree(Str_ds, 0)}
WalkRoots == {ROOT, Str_s, Str_d}
WalkNoLists == {{}, {Join(Str_d, Str_a)}, {Join(Str_d, Str_z)}}

InitWalk ==
    /\ loc \in WalkTrees
    /\ rem \in WalkTrees
    /\ \E path \in WalkRoots, download \in BOOLEAN :
          /\ args = [src |-> path, dst |-> path, download |-> download, include |-> <<>>,
                     exclude |-> <<>>, delete |-> TRUE, dry |-> TRUE]
          /\ frame = [NoFrame EXCEPT !.src = path, !.dst = path]
    /\ env \in [rev : BOOLEAN, noStore : {{}}, noRemove : {{}}, noList : WalkNoLists]
    /\ pc = "idle"
    /\ error = ""
    /\ todo = <<>>
    /\ dst_list = NoList
    /\ total_size = 0
    /\ run = 1
    /\ ops = <<>>
    /\ loc0 = loc
    /\ rem0 = rem
    /\ verdicts = <<>>
    /\ dwalk = <<>>
    /\ swalk = <<>>
    /\ client = Connected
    /\ log = <<>>

\* callable_walk(path): topdown, on the backend of the source
Walk_Pre ==
    /\ pc = "idle"
    /\ swalk' = SourceWalk(args, frame, loc, rem, env)
    /\ pc' = "pre"
    /\ UNCHANGED <<loc, rem, args, env, frame, error, todo, dst_list, total_size, run, ops,
                   loc0, rem0, verdicts, dwalk, client, log>>

\* the walk of callable_delete: topdown=False, on the backend of the destination
Walk_Post ==
    /\ pc \in {"idle", "pre"}
    /\ dwalk' = DestWalk(args, frame, loc, rem, env)
    /\ pc' = "post"
    /\ UNCHANGED <<loc, rem, args, env, frame, error, todo, dst_list, total_size, run, ops,
                   loc0, rem0, verdicts, swalk, client, log>>

NextWalk ==
    \/ Walk_Pre
    \/ Walk_Post

SpecWalk == InitWalk /\ [][NextWalk]_vars

\* entry j of walk w lies below the directory of entry i
Under(w, i, j) == w[j].type # "raise" /\ IsPrefix(w[i].file \o <<SLASH>>, w[j].file)

\* C15: in a pre-order walk, on either backend, every directory entry comes
\* before the entries below it, and the entries below it come right after
\* it, before any entry that is not below it (the walk goes through a
\* directory fully before it yields anything of the next sibling).
C15_PreOrderDepthFirst ==
    \A i \in 1..Len(swalk) :
        swalk[i].type = "dir" =>
            \A j \in 1..Len(swalk) :
                Under(swalk, i, j) =>
                    /\ i < j
                    /\ \A k \in (i + 1)..j : Under(swalk, i, k)

----------------------------------------------------------------------------
(* Source roots of every shape: an ordinary one, one with a character that *)
(* is a metacharacter of re ('+'), one that is no pattern ('++': multiple  *)
(* repeat), the empty one and the filesystem root.                         *)

Str_sp == <<"/", "s", "+">>
Str_spp == <<"/", "s", "+", "+">>

PathSrcs == {Str_s, Str_sp, Str_spp, <<>>, ROOT}

\* the tree under /s+: a/b.t and c.t
PlusTree ==
    Dir(ROOT) @@ Dir(Str_sp) @@ Dir(Str_sp \o <<SLASH>> \o Str_a)
    @@ File(Str_sp \o <<SLASH>> \o Str_a \o <<SLASH>> \o Str_bt, 1, 100)
    @@ File(Str_sp \o <<SLASH>> \o Str_ct, 2, 120)

\* sync called and nothing done yet: every other variable at its start
AtRest ==
    /\ frame = NoFrame
    /\ pc = "idle"
    /\ error = ""
    /\ todo = <<>>
    /\ dst_list = NoList
    /\ total_size = 0
    /\ run = 1
    /\ ops = <<>>
    /\ loc0 = loc
    /\ rem0 = rem
    /\ verdicts = <<>>
    /\ dwalk = <<>>
    /\ swalk = <<>>
    /\ log = <<>>

InitPaths ==
    /\ args \in [src : PathSrcs, dst : Dsts, download : BOOLEAN, include : {<<>>, <<Pat_t>>},
                 exclude : {<<>>}, delete : BOOLEAN, dry : BOOLEAN]
    /\ \E rev \in BOOLEAN, there \in BOOLEAN, full \in BOOLEAN :
          LET source == IF ~there THEN EmptyTree
                        ELSE IF args.src = Str_sp THEN PlusTree ELSE SrcTree(0)
              dest == IF full THEN DstTree(Str_d, 0) ELSE EmptyTree
          IN  /\ env = [rev |-> rev, noStore |-> {}, noRemove |-> {}, noList |-> {}]
              /\ loc = IF args.download THEN dest ELSE source
              /\ rem = IF args.download THEN source ELSE dest
    /\ client = Connected
    /\ AtRest

SpecPaths == InitPaths /\ [][Next]_vars

\* the source root as sync walks it, with the separator that ends it
SrcPrefix == IF RStrip(args.src) = <<>> THEN ROOT ELSE RStrip(args.src) \o <<SLASH>>

\* what is left of path p when the literal text of the source root and the
\* separator are taken off its front
LiteralRel(p) == SubSeq(p, Len(SrcPrefix) + 1, Len(p))

\* a directory path with the separator that ends it
Slashed(d) == IF EndsWithSlash(d) THEN d ELSE d \o <<SLASH>>

\* C14: the destination root is dst with the last component of src appended
\* when exactly one of src and dst ends with '/', and dst as it stands when
\* both or neither do; every admitted source file src/rel is mapped to
\* <destination root>/rel.
C14_PathMapperRule1 ==
    LET s == EndsWithSlash(args.src)
        d == EndsWithSlash(args.dst)
        one == (s /\ ~d) \/ (~s /\ d)
        last == Basename(RStrip(args.src))
    IN  frame # NoFrame =>
            /\ one => frame.dst = Slashed(args.dst) \o last
            /\ ~one => frame.dst = args.dst
            /\ \A i \in 1..Len(verdicts) :
                  /\ IsPrefix(SrcPrefix, verdicts[i].file)
                  /\ verdicts[i].dst_file = Slashed(frame.dst) \o LiteralRel(verdicts[i].file)

\* C18: whatever characters the source root is made of, sync gets past the
\* building of the prefix rule, the path relative to the source root is the
\* path without the literal prefix src + '/', it keeps nothing of the
\* source root, and every destination path sync computes (of a directory or
\* of a file) lies under the destination root.
C18_LiteralPrefixStripping ==
    /\ error # "re_base"
    /\ \A i \in 1..Len(verdicts) :
          RelPath(frame.re_base, verdicts[i].file) = LiteralRel(verdicts[i].file)
    /\ \A t \in {"file", "dir"} :
          \A i \in 1..Len(dst_list[t]) :
              IsPrefix(Slashed(frame.dst), dst_list[t][i])

----------------------------------------------------------------------------
(* An interrupted run: the process dies between two steps of sync, sync is *)
(* called again on what is left, and, for reference, the same call is made *)
(* on the trees as they were before the interrupted run.                   *)

CrashFaults ==
    {NoFault,
     [NoFault EXCEPT !.noRemove = {Join(Str_d, Str_y)}],
     [NoFault EXCEPT !.noList = {Join(Str_d, Str_z)}]}

InitCrash ==
    /\ args \in [src : Srcs, dst : Dsts, download : BOOLEAN, include : {<<>>, <<Pat_t>>},
                 exclude : Excludes, delete : BOOLEAN, dry : {FALSE}]
    /\ \E v \in Variations :
          /\ v.rev = FALSE
          /\ v.src = "tree"
          /\ v.fault \in CrashFaults
          /\ v.dst \in {"none", "d"}
          /\ v.skew \in {0, 30}
          /\ v.skew # 0 => v.dst = "d"
          /\ Cardinality({f \in {"fault", "frac", "skew"} : v[f] # Plain[f]}) <= MaxOff - 1
          /\ args.download => v.frac = 0
          /\ env = [rev |-> v.rev, noStore |-> v.fault.noStore,
                    noRemove |-> v.fault.noRemove, noList |-> v.fault.noList]
          /\ loc = IF args.download THEN DstFs(v) ELSE SrcFs(v)
          /\ rem = IF args.download THEN SrcFs(v) ELSE DstFs(v)
    /\ client = Connected
    /\ AtRest

\* the process is killed where sync stands; error keeps where that was
Crash ==
    /\ run = 1
    /\ pc \in {"walk", "utime", "delete"}
    /\ pc' = "crashed"
    /\ error' = pc
    /\ UNCHANGED <<loc, rem, args, env, frame, todo, dst_list, total_size, run, ops,
                   loc0, rem0, verdicts, dwalk, swalk, client, log>>

\* the process is killed inside sftp.get / sftp.put: the destination file
\* is there with the part written so far, n bytes, and the time of the write
Crash_Transfer ==
    /\ run = 1
    /\ pc = "walk"
    /\ ~args.dry
    /\ todo # <<>>
    /\ Head(todo).type = "file"
    /\ Admitted(frame, Head(todo).file)
    /\ LET item == Head(todo)
           dst_file == DstFile(frame, item.file)
           st == Store(args, env, Dest, item.file, dst_file, item.stat)
       IN  /\ ~IsFresh(args, Dest, dst_file, item.stat)
           /\ st.ok
           /\ \E n \in 0..(item.stat.size - 1) :
                 SetDest([st.fs EXCEPT ![dst_file].size = n])
    /\ pc' = "crashed"
    /\ error' = "transfer"
    /\ UNCHANGED <<args, env, frame, todo, dst_list, total_size, run, ops,
                   loc0, rem0, verdicts, dwalk, swalk, client, log>>

\* a new call of sync with the given arguments on the given trees
Call(a, l, r) ==
    /\ run' = run + 1
    /\ log' = Append(log, Outcome)
    /\ args' = a
    /\ loc' = l
    /\ rem' = r
    /\ loc0' = l
    /\ rem0' = r
    /\ pc' = "idle"
    /\ error' = ""
    /\ todo' = <<>>
    /\ dst_list' = NoList
    /\ total_size' = 0
    /\ ops' = <<>>
    /\ verdicts' = <<>>
    /\ dwalk' = <<>>
    /\ swalk' = <<>>
    /\ frame' = NoFrame
    /\ UNCHANGED <<env, client>>

\* sync is called again with the same arguments on what the interrupted
\* run left
Rerun ==
    /\ pc = "crashed"
    /\ Call(args, loc, rem)

\* the reference: the same call, not interrupted, on the trees the
\* interrupted run started from
Reference ==
    /\ run = 2
    /\ Ended
    /\ log[1].pc = "crashed"
    /\ Call(args, log[1].loc0, log[1].rem0)

NextCrash ==
    \/ Sync_Call
    \/ Sync_Raise
    \/ Sync_Filtered
    \/ Sync_Dir
    \/ Sync_File
    \/ Sync_Utime
    \/ Sync_EndWalk
    \/ Sync_Delete
    \/ Sync_Return
    \/ Crash
    \/ Crash_Transfer
    \/ Rerun
    \/ Reference

SpecCrash == InitCrash /\ [][NextCrash]_vars

\* a tree as the claims compare trees: the entries, the sizes, the mtimes
Tree(fs) == [q \in DOMAIN fs |-> <<fs[q].kind, fs[q].size, fs[q].mtime>>]

----------------------------------------------------------------------------
(* A round trip: sync of A to B, then sync of B to A, the direction         *)
(* reversed, with the same filters and without delete.                     *)

RoundFaults == {NoFault, [NoFault EXCEPT !.noList = {Join(Str_d, Str_z)}]}

InitRound ==
    /\ args \in [src : Srcs, dst : Dsts, download : BOOLEAN, include : {<<>>, <<Pat_t>>},
                 exclude : Excludes, delete : {FALSE}, dry : {FALSE}]
    /\ \E v \in {w \in Variations : OneOff(w)} :
          /\ v.fault \in RoundFaults
          /\ v.dst \in {"none", "d"}
          /\ args.download => v.frac = 0
          /\ env = [rev |-> v.rev, noStore |-> v.fault.noStore,
                    noRemove |-> v.fault.noRemove, noList |-> v.fault.noList]
          /\ loc = IF args.download THEN DstFs(v) ELSE SrcFs(v)
          /\ rem = IF args.download THEN SrcFs(v) ELSE DstFs(v)
    /\ client = Connected
    /\ AtRest

\* once sync(A, B) has returned, the caller calls sync(B, A): the root the
\* first call wrote to as src, the root it read from as dst, download
\* negated, the other arguments as they were
Reverse ==
    /\ run = 1
    /\ pc = "done"
    /\ Call([args EXCEPT !.src = Canon(frame.dst), !.dst = frame.src,
                         !.download = ~args.download],
            loc, rem)

NextRound ==
    \/ Sync_Call
    \/ Sync_Raise
    \/ Sync_Filtered
    \/ Sync_Dir
    \/ Sync_File
    \/ Sync_Utime
    \/ Sync_EndWalk
    \/ Reverse

SpecRound == InitRound /\ [][NextRound]_vars

\* the files of a tree
Files(fs) == {q \in DOMAIN fs : fs[q].kind = "file"}

\* A before the round trip: the source side of the first call
RoundA0 == IF log[1].args.download THEN log[1].rem0 ELSE log[1].loc0
\* B before the round trip, and the root of B the first call wrote to
RoundB0 == IF log[1].args.download THEN log[1].loc0 ELSE log[1].rem0
RoundB == RStrip(args.src)

\* A has the files it had, of the sizes they had, the mtimes no more than
\* 3 time units (30 tenths) off
SameAsBefore(fs, fs0) ==
    /\ Files(fs) = Files(fs0)
    /\ \A q \in Files(fs0) :
          /\ fs[q].size = fs0[q].size
          /\ Abs(fs[q].mtime, fs0[q].mtime) <= 30

\* C13, as claimed: when the second call of a round trip has returned, A
\* has the files it had before the first, with their sizes, the mtimes
\* within tolerance.
C13_RoundTripAsClaimed ==
    (run = 2 /\ pc = "done") => SameAsBefore(Dest, RoundA0)

\* the files B held under its root before the first call
Held == {q \in Files(RoundB0) : IsPrefix(RoundB \o <<SLASH>>, q)}

\* C13, amended: when B held no file under its root before the first call,
\* A has after the round trip the files it had before, with their sizes,
\* the mtimes within tolerance, and every file the second call looks at or
\* copies was in A with the size it has in B.
C13_RoundTrip ==
    (run = 2 /\ Held = {}) =>
        /\ Ended => SameAsBefore(Dest, RoundA0)
        /\ \A i \in 1..Len(verdicts) :
              /\ FileAt(RoundA0, verdicts[i].dst_file)
              /\ RoundA0[verdicts[i].dst_file].size = verdicts[i].src_stat.size

\* C13, witness: the second call of a round trip into an empty B has
\* returned, having copied back to A a file the first call had copied to B
C13_Witness ==
    /\ run = 2
    /\ pc = "done"
    /\ Held = {}
    /\ \E i \in 1..Len(ops) :
          /\ ops[i].op \in {"get", "put"}
          /\ ops[i].ok
          /\ \E j \in 1..Len(verdicts) :
                /\ verdicts[j].dst_file = ops[i].path
                /\ \E k \in 1..Len(log[1].ops) :
                      /\ log[1].ops[k].op \in {"get", "put"}
                      /\ log[1].ops[k].path = verdicts[j].file

----------------------------------------------------------------------------
(* Sftp.__init__, lines 14-33: the connection attempts.  env.net tells, for *)
(* each attempt, what the network lets succeed: "ok", or the call that     *)
(* raises, "connect" or "open_sftp".                                       *)

\* the attempts a constructor is given at most, in the calls explored
MaxAttempts == 3

NoArgs == [src |-> <<>>, dst |-> <<>>, download |-> TRUE, include |-> <<>>, exclude |-> <<>>,
           delete |-> FALSE, dry |-> FALSE]

\* lines 16-23: the fields set before the loop
InitConnect ==
    /\ \E max_attempts \in 0..MaxAttempts, log_errors \in BOOLEAN :
          client = [pc |-> "for", i |-> 0, max_attempts |-> max_attempts,
                    log_errors |-> log_errors, sftp |-> "none", logged |-> FALSE,
                    calls |-> <<>>, errors |-> <<>>]
    /\ env \in [net : [1..MaxAttempts -> {"ok", "connect", "open_sftp"}]]
    /\ args = NoArgs
    /\ loc = EmptyTree
    /\ rem = EmptyTree
    /\ AtRest

Rest == <<loc, rem, args, env, frame, pc, error, todo, dst_list, total_size, run, ops,
          loc0, rem0, verdicts, dwalk, swalk, log>>

\* line 24: for i in range(max_attempts); the loop over, __init__ returns
Init_For ==
    /\ client.pc = "for"
    /\ client' = [client EXCEPT !.pc = IF client.i < client.max_attempts
                                       THEN "connect" ELSE "returned"]
    /\ UNCHANGED Rest

\* lines 26-27: self.client.connect(...)
Init_Connect ==
    /\ client.pc = "connect"
    /\ client' = [client EXCEPT
                    !.calls = Append(@, [op |-> "connect", i |-> client.i]),
                    !.pc = IF env.net[client.i + 1] = "connect" THEN "except"
                           ELSE "open_sftp"]
    /\ UNCHANGED Rest

\* line 28: self.sftp = self.client.open_sftp()
Init_OpenSftp ==
    /\ client.pc = "open_sftp"
    /\ client' = IF env.net[client.i + 1] = "open_sftp"
                 THEN [client EXCEPT
                         !.calls = Append(@, [op |-> "open_sftp", i |-> client.i]),
                         !.pc = "except"]
                 ELSE [client EXCEPT
                         !.calls = Append(@, [op |-> "open_sftp", i |-> client.i]),
                         !.sftp = "session",
                         !.pc = "logged"]
    /\ UNCHANGED Rest

\* lines 29-30: self.logged = True; return
Init_Logged ==
    /\ client.pc = "logged"
    /\ client' = [client EXCEPT !.logged = TRUE, !.pc = "returned"]
    /\ UNCHANGED Rest

LogsError_EveryAttempt(i, max_attempts, log_errors) == log_errors

\* line 32: if i == max_attempts - 1 and log_errors
LogsError(i, max_attempts, log_errors) == i = max_attempts - 1 /\ log_errors

\* lines 31-33: except Exception: logger.error at the last attempt; then
\* the next iteration
Init_Except ==
    /\ client.pc = "except"
    /\ client' = [client EXCEPT
                    !.errors = IF LogsError(client.i, client.max_attempts, client.log_errors)
                               THEN Append(@, client.i) ELSE @,
                    !.i = @ + 1,
                    !.pc = "for"]
    /\ UNCHANGED Rest

NextConnect ==
    \/ Init_For
    \/ Init_Connect
    \/ Init_OpenSftp
    \/ Init_Logged
    \/ Init_Except

SpecConnect == InitConnect /\ [][NextConnect]_vars

\* the attempts made: the calls of connect
Attempts == {k \in 1..Len(client.calls) : client.calls[k].op = "connect"}

\* the first attempt, from 1, at which connect and open_sftp both succeed
\* among the max_attempts allowed; 0 when there is none
FirstOk ==
    LET S == {k \in 1..client.max_attempts : env.net[k] = "ok"}
    IN  IF S = {} THEN 0 ELSE CHOOSE k \in S : \A j \in S : k <= j

\* C20: the constructor makes at most max_attempts attempts, in order, and
\* none after the first that succeeds; it always comes to return; once it
\* has returned, logged is TRUE iff sftp is set, which is so iff an attempt
\* succeeded; an error is logged only at the last attempt, only when
\* log_errors is set, and then when all attempts have failed.
C20_ConnectionRetry ==
    /\ Cardinality(Attempts) <= client.max_attempts
    /\ \A k \in 1..Len(client.calls) :
          /\ client.calls[k].i < client.max_attempts
          /\ k > 1 => client.calls[k - 1].i <= client.calls[k].i
          /\ FirstOk # 0 => client.calls[k].i < FirstOk
    /\ client.pc # "returned" => ENABLED NextConnect
    /\ client.pc = "returned" =>
          /\ client.logged <=> client.sftp # "none"
          /\ client.logged <=> FirstOk # 0
          /\ Cardinality(Attempts) = IF FirstOk # 0 THEN FirstOk ELSE client.max_attempts
          /\ client.errors = IF FirstOk = 0 /\ client.log_errors /\ client.max_attempts > 0
                             THEN <<client.max_attempts - 1>> ELSE <<>>
    /\ \A k \in 1..Len(client.errors) :
          /\ client.errors[k] = client.max_attempts - 1
          /\ client.log_errors
          /\ FirstOk = 0

\* C20, witness: the constructor has returned after three failed attempts,
\* one of them failed at open_sftp, with logged FALSE, no session and the
\* failure of the last attempt logged
C20_Witness ==
    /\ client.pc = "returned"
    /\ client.max_attempts = 3
    /\ Cardinality(Attempts) = 3
    /\ \E k \in 1..Len(client.calls) : client.calls[k].op = "open_sftp"
    /\ ~client.logged
    /\ client.sftp = "none"
    /\ client.errors = <<2>>

====
